---------------------------- MODULE Spec2Model ----------------------------
(***************************************************************************)
(* HttpClientAdapter (src/src/HttpClientAdapter.ts): the adapter that      *)
(* wraps a caller-supplied request function.                               *)
(*                                                                         *)
(* Representation of JavaScript values:                                    *)
(*   - a string is the sequence of its character codes (ASCII letters are  *)
(*     byte values, so "a" is <<97>>); the empty string is <<>>;           *)
(*   - a Buffer is the sequence of its bytes;                              *)
(*   - an optional value (undefined or x) is <<>> or <<x>>;                *)
(*   - an object used as a mapping is the sequence of its [key, value]     *)
(*     entries in property (insertion) order, keys pairwise distinct;      *)
(*   - a value of unknown type is a record [k, v]: k is "str", "buf",      *)
(*     "num", "undef" or "obj", v the characters, the bytes, or <<n>>.     *)
(***************************************************************************)
EXTENDS Integers, Sequences, FiniteSets, TLC

VARIABLES
    userAgent,      \* this._userAgent: <<>> (undefined) or <<string>>
    calls,          \* one record per call of request(), in call order
    extLog,         \* the invocations of this._customRequestFunction, in order
    callerObjects   \* the header objects the callers own and pass as options.headers

vars == <<userAgent, calls, extLog, callerObjects>>

---------------------------------------------------------------------------
(* String literals of the source and of the inputs, as character codes.    *)

\* "user-agent"
S_user_agent ==
    <<117, 115, 101, 114, 45, 97, 103, 101, 110, 116>>
\* "User-Agent"
S_User_Agent ==
    <<85, 115, 101, 114, 45, 65, 103, 101, 110, 116>>
\* "content-type"
S_content_type ==
    <<99, 111, 110, 116, 101, 110, 116, 45, 116, 121, 112, 101>>
\* "Content-Type"
S_Content_Type ==
    <<67, 111, 110, 116, 101, 110, 116, 45, 84, 121, 112, 101>>
\* "x-req"
S_x_req ==
    <<120, 45, 114, 101, 113>>
\* "application/json"
S_application_json ==
    <<97, 112, 112, 108, 105, 99, 97, 116, 105, 111, 110, 47, 106, 115, 111, 110>>
\* "application/json; charset=utf-8"
S_json_charset ==
    <<97, 112, 112, 108, 105, 99, 97, 116, 105, 111, 110, 47, 106, 115, 111, 110,
      59, 32, 99, 104, 97, 114, 115, 101, 116, 61, 117, 116, 102, 45, 56>>
\* "Application/JSON"
S_Application_JSON ==
    <<65, 112, 112, 108, 105, 99, 97, 116, 105, 111, 110, 47, 74, 83, 79, 78>>
\* "text/plain"
S_text_plain ==
    <<116, 101, 120, 116, 47, 112, 108, 97, 105, 110>>
\* "UA1"
S_UA1 ==
    <<85, 65, 49>>
\* "UA2"
S_UA2 ==
    <<85, 65, 50>>
\* "curl"
S_callerUA ==
    <<99, 117, 114, 108>>
\* "-----------------------------" (29 dashes), line 52
S_boundaryPrefix ==
    <<45, 45, 45, 45, 45, 45, 45, 45, 45, 45, 45, 45, 45, 45, 45, 45, 45, 45, 45, 45,
      45, 45, 45, 45, 45, 45, 45, 45, 45>>
\* "multipart/form-data; boundary=", line 53
S_multipartPrefix ==
    <<109, 117, 108, 116, 105, 112, 97, 114, 116, 47, 102, 111, 114, 109, 45, 100,
      97, 116, 97, 59, 32, 98, 111, 117, 110, 100, 97, 114, 121, 61>>
\* "--", lines 60 and 73
S_dashdash ==
    <<45, 45>>
\* "\r\n"
S_CRLF ==
    <<13, 10>>
\* "Content-Disposition: form-data; name=" and the opening quote, line 60
S_dispositionHead ==
    <<67, 111, 110, 116, 101, 110, 116, 45, 68, 105, 115, 112, 111, 115, 105, 116,
      105, 111, 110, 58, 32, 102, 111, 114, 109, 45, 100, 97, 116, 97, 59, 32, 110,
      97, 109, 101, 61, 34>>
\* "; filename=" and the opening quote, line 62
S_filenameHead ==
    <<59, 32, 102, 105, 108, 101, 110, 97, 109, 101, 61, 34>>
\* the double quote
S_quote ==
    <<34>>
\* "\r\nContent-Type: ", line 65
S_partContentType ==
    <<13, 10, 67, 111, 110, 116, 101, 110, 116, 45, 84, 121, 112, 101, 58, 32>>
\* "undefined": String(undefined)
S_undefined ==
    <<117, 110, 100, 101, 102, 105, 110, 101, 100>>
\* "[object Object]": String({})
S_objectObject ==
    <<91, 111, 98, 106, 101, 99, 116, 32, 79, 98, 106, 101, 99, 116, 93>>
\* "not json"
S_not_json ==
    <<110, 111, 116, 32, 106, 115, 111, 110>>

---------------------------------------------------------------------------
(* JavaScript primitives the adapter uses.                                 *)

None == <<>>
Some(x) == <<x>>

\* String.prototype.toLowerCase on ASCII: A-Z (65..90) become a-z.
ToLowerCase(s) ==
    [i \in DOMAIN s |-> IF s[i] >= 65 /\ s[i] <= 90 THEN s[i] + 32 ELSE s[i]]

\* Whether sub occurs in s at position i (1-based).
MatchAt(s, i, sub) ==
    /\ i >= 1
    /\ i + Len(sub) - 1 <= Len(s)
    /\ \A j \in 1..Len(sub) : s[i + j - 1] = sub[j]

\* String.prototype.includes: sub occurs somewhere in s.
Includes(s, sub) ==
    \E i \in 1..(Len(s) + 1) : MatchAt(s, i, sub)

\* String(n) for a non-negative integer: its decimal digits.
RECURSIVE NumberToString(_)
NumberToString(n) ==
    IF n < 10 THEN <<48 + n>>
    ELSE Append(NumberToString(n \div 10), 48 + (n % 10))

\* String(x) for a value of unknown type.
StringOf(x) ==
    CASE x.k = "str" -> x.v
      [] x.k = "num" -> NumberToString(x.v[1])
      [] x.k = "undef" -> S_undefined
      [] OTHER -> S_objectObject

\* The UTF-8 bytes of the character c.
Utf8Bytes(c) ==
    IF c < 128 THEN <<c>>
    ELSE IF c < 2048 THEN <<192 + (c \div 64), 128 + (c % 64)>>
    ELSE <<224 + (c \div 4096), 128 + ((c \div 64) % 64), 128 + (c % 64)>>

\* Buffer.from(s, 'utf8'): the UTF-8 bytes of the characters of s, computed
\* by halves.
RECURSIVE Utf8Encode(_)
Utf8Encode(s) ==
    IF s = <<>> THEN <<>>
    ELSE IF Len(s) = 1 THEN Utf8Bytes(s[1])
    ELSE LET h == Len(s) \div 2 IN
         Utf8Encode(SubSeq(s, 1, h)) \o Utf8Encode(SubSeq(s, h + 1, Len(s)))

IsContinuation(b, i) == i <= Len(b) /\ b[i] >= 128 /\ b[i] <= 191

\* buffer.toString('utf8'): decodes b from position i; a byte that starts no
\* well-formed sequence becomes U+FFFD (65533).
RECURSIVE Utf8DecodeFrom(_, _)
Utf8DecodeFrom(b, i) ==
    IF i > Len(b) THEN <<>>
    ELSE IF b[i] < 128
         THEN <<b[i]>> \o Utf8DecodeFrom(b, i + 1)
    ELSE IF b[i] >= 194 /\ b[i] <= 223 /\ IsContinuation(b, i + 1)
         THEN <<(b[i] - 192) * 64 + (b[i + 1] - 128)>> \o Utf8DecodeFrom(b, i + 2)
    ELSE IF b[i] >= 224 /\ b[i] <= 239 /\ IsContinuation(b, i + 1)
            /\ (b[i] = 224 => b[i + 1] >= 160) /\ IsContinuation(b, i + 2)
         THEN <<(b[i] - 224) * 4096 + (b[i + 1] - 128) * 64 + (b[i + 2] - 128)>>
              \o Utf8DecodeFrom(b, i + 3)
    ELSE <<65533>> \o Utf8DecodeFrom(b, i + 1)

Utf8Decode(b) == Utf8DecodeFrom(b, 1)

---------------------------------------------------------------------------
(* Objects used as mappings: entries in property order.                    *)

Keys(o) == {o[i].key : i \in DOMAIN o}

HasKey(o, k) == \E i \in DOMAIN o : o[i].key = k

\* o[k], for a key the object has.
Get(o, k) == o[CHOOSE i \in DOMAIN o : o[i].key = k].value

\* o[k] = v: an existing property keeps its position, a new one goes last.
Put(o, k, v) ==
    IF HasKey(o, k)
    THEN [i \in DOMAIN o |-> IF o[i].key = k THEN [key |-> k, value |-> v] ELSE o[i]]
    ELSE Append(o, [key |-> k, value |-> v])

---------------------------------------------------------------------------
(* JSON.parse, for texts made of decimal integers, null, arrays, commas    *)
(* and spaces; every other text is rejected (a SyntaxError).  A parsed     *)
(* value is [t, n, a]: t is "num" (n its value), "null", or "arr" (a its   *)
(* elements).                                                              *)

JNull == [t |-> "null", n |-> 0, a |-> <<>>]
JNum(n) == [t |-> "num", n |-> n, a |-> <<>>]
JArr(a) == [t |-> "arr", n |-> 0, a |-> a]
\* "null"
S_null ==
    <<110, 117, 108, 108>>

ParseFail == [ok |-> FALSE, next |-> 0, val |-> JNull]
ParseOk(v, next) == [ok |-> TRUE, next |-> next, val |-> v]

IsDigit(c) == c >= 48 /\ c <= 57

RECURSIVE SkipSpaces(_, _)
SkipSpaces(s, i) ==
    IF i <= Len(s) /\ s[i] = 32 THEN SkipSpaces(s, i + 1) ELSE i

RECURSIVE ParseDigits(_, _, _)
ParseDigits(s, i, n) ==
    IF i <= Len(s) /\ IsDigit(s[i])
    THEN ParseDigits(s, i + 1, n * 10 + (s[i] - 48))
    ELSE ParseOk(JNum(n), i)

RECURSIVE ParseValue(_, _)
RECURSIVE ParseElements(_, _, _)
ParseValue(s, i0) ==
    LET i == SkipSpaces(s, i0) IN
    IF i > Len(s) THEN ParseFail
    ELSE IF s[i] = 48 THEN ParseOk(JNum(0), i + 1)
    ELSE IF IsDigit(s[i]) THEN ParseDigits(s, i, 0)
    ELSE IF MatchAt(s, i, S_null) THEN ParseOk(JNull, i + Len(S_null))
    ELSE IF s[i] = 91
         THEN LET j == SkipSpaces(s, i + 1) IN
              IF j <= Len(s) /\ s[j] = 93
              THEN ParseOk(JArr(<<>>), j + 1)
              ELSE ParseElements(s, i + 1, <<>>)
    ELSE ParseFail

ParseElements(s, i, acc) ==
    LET r == ParseValue(s, i) IN
    IF ~r.ok THEN ParseFail
    ELSE LET j == SkipSpaces(s, r.next) IN
         IF j > Len(s) THEN ParseFail
         ELSE IF s[j] = 44 THEN ParseElements(s, j + 1, Append(acc, r.val))
         ELSE IF s[j] = 93 THEN ParseOk(JArr(Append(acc, r.val)), j + 1)
         ELSE ParseFail

\* JSON.parse(text): ok is FALSE where JSON.parse throws.
JSONParse(text) ==
    LET r == ParseValue(text, 1) IN
    IF r.ok /\ SkipSpaces(text, r.next) > Len(text)
    THEN [ok |-> TRUE, val |-> r.val]
    ELSE [ok |-> FALSE, val |-> JNull]

---------------------------------------------------------------------------
(* request(), lines 41-84: the request handed to the custom function.      *)

\* Line 52: the prefix, Date.now().toString(), and
\* Math.random().toString().slice(2) (the digits after "0.", given as rnd).
Boundary(now, rnd) == S_boundaryPrefix \o NumberToString(now) \o rnd

\* Lines 60-67: the head of one part.
PartHead(key, formObject, boundary) ==
    S_dashdash \o boundary \o S_CRLF \o S_dispositionHead \o key \o S_quote
    \o (IF formObject.filename # None /\ formObject.filename[1] # <<>>
        THEN S_filenameHead \o formObject.filename[1] \o S_quote
        ELSE <<>>)
    \o (IF formObject.contentType # None /\ formObject.contentType[1] # <<>>
        THEN S_partContentType \o formObject.contentType[1]
        ELSE <<>>)
    \o S_CRLF \o S_CRLF

\* Line 70: Buffer.isBuffer(content) ? content : Buffer.from(String(content)).
ContentBytes(content) ==
    IF content.k = "buf" THEN content.v ELSE Utf8Encode(StringOf(content))

\* Lines 56-72: the parts of the first n fields, in property order.
RECURSIVE EncodeParts(_, _, _)
EncodeParts(form, n, boundary) ==
    IF n = 0 THEN <<>>
    ELSE EncodeParts(form, n - 1, boundary)
         \o Utf8Encode(PartHead(form[n].key, form[n].value, boundary))
         \o ContentBytes(form[n].value.content)
         \o Utf8Encode(S_CRLF)

\* Lines 55-74: the encoded multipart body.
EncodeMultipart(form, boundary) ==
    EncodeParts(form, Len(form), boundary)
    \o Utf8Encode(S_dashdash \o boundary \o S_dashdash \o S_CRLF)

\* Line 41: a copy of the caller's headers, or an empty object.
CopyHeaders(callerHeaders) ==
    IF callerHeaders = None THEN <<>> ELSE callerHeaders[1]

\* Lines 44-46: the configured user-agent, when truthy, is assigned.
WithUserAgent(headers, ua) ==
    IF ua # None /\ ua[1] # <<>> THEN Put(headers, S_user_agent, ua[1]) ELSE headers

\* BuildHeaders with the multipart content type only added when the headers
\* hold no content-type yet.
BuildHeadersKeepCaller(callerHeaders, multipartForm, ua, boundary) ==
    LET h == WithUserAgent(CopyHeaders(callerHeaders), ua) IN
    IF multipartForm # None /\ ~HasKey(h, S_content_type)
    THEN Put(h, S_content_type, S_multipartPrefix \o boundary)
    ELSE h

\* Lines 41-53: the headers of the outgoing request.
BuildHeaders(callerHeaders, multipartForm, ua, boundary) ==
    LET h == WithUserAgent(CopyHeaders(callerHeaders), ua) IN
    IF multipartForm # None
    THEN Put(h, S_content_type, S_multipartPrefix \o boundary)
    ELSE h

\* Lines 48-75: the body, undefined without a multipart form.
BuildBody(multipartForm, boundary) ==
    IF multipartForm # None
    THEN Some(EncodeMultipart(multipartForm[1], boundary))
    ELSE None

\* Lines 78-84: customOptions.  callerHeaders is what options.headers holds.
CustomOptions(options, callerHeaders, ua, boundary) ==
    [method |-> options.method,
     url |-> options.url,
     headers |-> BuildHeaders(callerHeaders, options.multipartForm, ua, boundary),
     queryParams |-> options.queryString,
     body |-> BuildBody(options.multipartForm, boundary)]

---------------------------------------------------------------------------
(* request(), lines 89-125: the response returned to the client.  A header *)
(* value is [isArray, items]: a string s is [FALSE, <<s>>], an array is    *)
(* [TRUE, its strings].                                                    *)

HStr(s) == [isArray |-> FALSE, items |-> <<s>>]
HArr(a) == [isArray |-> TRUE, items |-> a]

\* Lines 131-139: the value of the first key matching name, ignoring case;
\* of an array its first element (undefined for an empty array).
RECURSIVE GetHeaderFrom(_, _, _)
GetHeaderFrom(headers, lowerName, i) ==
    IF i > Len(headers) THEN None
    ELSE IF ToLowerCase(headers[i].key) = lowerName
         THEN (IF headers[i].value.isArray /\ headers[i].value.items = <<>>
               THEN None
               ELSE Some(headers[i].value.items[1]))
    ELSE GetHeaderFrom(headers, lowerName, i + 1)

\* GetHeader comparing the keys as they are spelled.
RECURSIVE GetHeaderExactFrom(_, _, _)
GetHeaderExactFrom(headers, name, i) ==
    IF i > Len(headers) THEN None
    ELSE IF headers[i].key = name
         THEN (IF headers[i].value.isArray /\ headers[i].value.items = <<>>
               THEN None
               ELSE Some(headers[i].value.items[1]))
    ELSE GetHeaderExactFrom(headers, name, i + 1)

GetHeaderExact(headers, name) == GetHeaderExactFrom(headers, name, 1)

GetHeader(headers, name) == GetHeaderFrom(headers, ToLowerCase(name), 1)

\* Lines 144-150: every entry assigned under its lowercased key, in order.
RECURSIVE NormalizeFirst(_, _)
NormalizeFirst(headers, n) ==
    IF n = 0 THEN <<>>
    ELSE Put(NormalizeFirst(headers, n - 1),
             ToLowerCase(headers[n].key), headers[n].value)

\* NormalizeHeaders keeping the first value assigned to a lowercased key.
RECURSIVE NormalizeKeepFirst(_, _)
NormalizeKeepFirst(headers, n) ==
    IF n = 0 THEN <<>>
    ELSE LET rest == NormalizeKeepFirst(headers, n - 1) IN
         IF HasKey(rest, ToLowerCase(headers[n].key)) THEN rest
         ELSE Put(rest, ToLowerCase(headers[n].key), headers[n].value)

NormalizeHeadersFirstWins(headers) == NormalizeKeepFirst(headers, Len(headers))

NormalizeHeaders(headers) == NormalizeFirst(headers, Len(headers))

\* Lines 90-93: a body that is neither string nor Buffer is stringified.
ResponseBody(body) ==
    IF body.k # "str" /\ body.k # "buf"
    THEN [k |-> "str", v |-> StringOf(body)]
    ELSE body

\* Lines 99-105.
TextBody(responseBody) ==
    IF responseBody.k = "buf" THEN Utf8Decode(responseBody.v) ELSE responseBody.v

RawBody(responseBody) ==
    IF responseBody.k = "buf" THEN responseBody.v ELSE Utf8Encode(responseBody.v)

\* TryParse without the catch: the SyntaxError leaves the statement.
TryParseNoCatch(textBody) ==
    LET r == JSONParse(textBody) IN
    [threw |-> ~r.ok, jsonBody |-> IF r.ok THEN Some(r.val) ELSE None]

\* Lines 110-114: try { jsonBody = JSON.parse(textBody) } catch { }.
\* threw: whether an exception leaves the statement.
TryParse(textBody) ==
    LET r == JSONParse(textBody) IN
    [threw |-> FALSE, jsonBody |-> IF r.ok THEN Some(r.val) ELSE None]

\* Lines 108-115.
ParseJsonBody(headers, textBody) ==
    LET responseContentType == GetHeader(headers, S_content_type) IN
    IF responseContentType # None /\ responseContentType[1] # <<>>
       /\ Includes(responseContentType[1], S_application_json)
    THEN TryParse(textBody)
    ELSE [threw |-> FALSE, jsonBody |-> None]

\* Lines 118-125.
NormalizedResponse(customResponse) ==
    LET responseBody == ResponseBody(customResponse.body)
        textBody == TextBody(responseBody)
    IN [statusCode |-> customResponse.statusCode,
        headers |-> NormalizeHeaders(customResponse.headers),
        url |-> customResponse.finalUrl,
        jsonBody |-> ParseJsonBody(customResponse.headers, textBody).jsonBody,
        textBody |-> textBody,
        rawBody |-> RawBody(responseBody)]

---------------------------------------------------------------------------
(* Bounds and inputs.                                                      *)

MaxCalls == 2     \* calls of request() on the adapter
MaxFields == 2    \* fields of a multipart payload
MaxHeaders == 2   \* headers of an external response

\* The mappings of at most n entries of E, keys pairwise distinct.
MappingsUpTo(E, n) ==
    UNION {{m \in [1..k -> E] : \A i, j \in 1..k : i < j => m[i].key # m[j].key}
           : k \in 0..n}

\* The header objects of the callers: {}, {user-agent}, {User-Agent, x-req},
\* {content-type}, {Content-Type, user-agent}, {x-req, content-type}.
InitialCallerObjects ==
    << <<>>,
       <<[key |-> S_user_agent, value |-> S_callerUA]>>,
       <<[key |-> S_User_Agent, value |-> S_callerUA],
         [key |-> S_x_req, value |-> <<49>>]>>,
       <<[key |-> S_content_type, value |-> S_text_plain]>>,
       <<[key |-> S_Content_Type, value |-> S_text_plain],
         [key |-> S_user_agent, value |-> S_callerUA]>>,
       <<[key |-> S_x_req, value |-> <<49>>],
         [key |-> S_content_type, value |-> S_application_json]>> >>

\* options.headers: undefined, or a reference to one of the callers' objects.
HeaderRefs == {None} \cup {Some(id) : id \in DOMAIN InitialCallerObjects}

\* Field names: f, g, and a"b.
FieldNames == {<<102>>, <<103>>, <<97, 34, 98>>}

\* Field values: text "bar"; bytes with a filename "a.txt" and a content
\* type; the number 5 with an empty filename; text "hé" with a content type.
FieldValues ==
    {[content |-> [k |-> "str", v |-> <<98, 97, 114>>],
      filename |-> None, contentType |-> None],
     [content |-> [k |-> "buf", v |-> <<255, 0, 13, 10>>],
      filename |-> Some(<<97, 46, 116, 120, 116>>), contentType |-> Some(S_text_plain)],
     [content |-> [k |-> "num", v |-> <<5>>],
      filename |-> Some(<<>>), contentType |-> None],
     [content |-> [k |-> "str", v |-> <<104, 233>>],
      filename |-> None, contentType |-> Some(S_text_plain)]}

MultipartForms ==
    MappingsUpTo({[key |-> n, value |-> f] : n \in FieldNames, f \in FieldValues},
                 MaxFields)

\* The options of a call: a GET without a body, or a POST of a multipart form.
OptionsOf(headers, multipartForm) ==
    [method |-> IF multipartForm = None THEN "GET" ELSE "POST",
     url |-> "https://login.example/",
     headers |-> headers,
     queryString |-> IF multipartForm = None
                     THEN Some(<<[key |-> <<113>>, value |-> <<49>>]>>)
                     ELSE None,
     multipartForm |-> multipartForm]

WideOptions ==
    {OptionsOf(h, m) : h \in HeaderRefs,
                       m \in {None} \cup {Some(f) : f \in MultipartForms}}

\* Two calls that pass the same header object, one of them with a form.
SmallOptions ==
    {OptionsOf(Some(2), None),
     OptionsOf(Some(2), Some(<<[key |-> <<102>>,
                                value |-> [content |-> [k |-> "str", v |-> <<98>>],
                                           filename |-> None,
                                           contentType |-> None]]>>))}

\* Date.now() (a value TLC's integers hold), and the digits of Math.random()
\* after "0." ("" for 0).
NowValues == {1730000000}
RandomDigits == {<<>>, <<53>>}

\* The values given to the userAgent setter.
UserAgentValues == {<<>>, S_UA1, S_UA2}
TwoUserAgents == {S_UA1, S_UA2}

\* Headers of external responses.
ResponseHeaderKeys == {S_content_type, S_Content_Type, S_x_req}
ResponseHeaderValues ==
    {HStr(S_application_json), HStr(S_text_plain), HStr(<<>>),
     HStr(S_Application_JSON), HArr(<<S_json_charset, S_text_plain>>), HArr(<<>>)}

ResponseHeaders ==
    MappingsUpTo({[key |-> k, value |-> v] : k \in ResponseHeaderKeys,
                                             v \in ResponseHeaderValues},
                 MaxHeaders)

\* Bodies of external responses: "[1]", "not json", "", the bytes of "[1, 2]",
\* bytes that are no UTF-8, the number 5, undefined, an object.
ResponseBodies ==
    {[k |-> "str", v |-> <<91, 49, 93>>],
     [k |-> "str", v |-> S_not_json],
     [k |-> "str", v |-> <<>>],
     [k |-> "buf", v |-> <<91, 49, 44, 32, 50, 93>>],
     [k |-> "buf", v |-> <<255, 195>>],
     [k |-> "num", v |-> <<5>>],
     [k |-> "undef", v |-> <<>>],
     [k |-> "obj", v |-> <<>>]}

WideResponses ==
    {[statusCode |-> 200, headers |-> h, body |-> b,
      finalUrl |-> "https://login.example/done"]
     : h \in ResponseHeaders, b \in ResponseBodies}

SmallResponses ==
    {[statusCode |-> 200,
      headers |-> <<[key |-> S_Content_Type, value |-> HStr(S_application_json)]>>,
      body |-> [k |-> "str", v |-> <<91, 49, 93>>],
      finalUrl |-> "https://login.example/done"],
     [statusCode |-> 404,
      headers |-> <<[key |-> S_content_type, value |-> HStr(S_text_plain)]>>,
      body |-> [k |-> "buf", v |-> <<255, 195>>],
      finalUrl |-> "https://login.example/"]}

\* The errors the custom function throws or rejects with.
Errors == {"ETIMEDOUT", "ECONNRESET"}

---------------------------------------------------------------------------
(* The adapter.                                                            *)

\* Lines 11-13: no user-agent, no call made.
Init ==
    /\ userAgent = None
    /\ calls = <<>>
    /\ extLog = <<>>
    /\ callerObjects = InitialCallerObjects

\* SetUserAgent writing the new value into the headers of the requests in
\* flight too, as if they shared one headers object with the adapter.
SetUserAgentShared ==
    \E value \in TwoUserAgents :
        /\ userAgent' = Some(value)
        /\ calls' = [i \in DOMAIN calls |->
                        IF calls[i].state = "awaiting"
                        THEN [calls[i] EXCEPT !.request.headers =
                                 WithUserAgent(@, Some(value))]
                        ELSE calls[i]]
        /\ UNCHANGED <<extLog, callerObjects>>

\* Lines 22-24: set userAgent(value).
SetUserAgentTo(value) ==
    /\ userAgent' = Some(value)
    /\ UNCHANGED <<calls, extLog, callerObjects>>

SetUserAgent == \E value \in TwoUserAgents : SetUserAgentTo(value)

\* CallerObjectAfter when line 41 takes options.headers itself, not a copy.
CallerObjectAliased(object, headers) == headers

\* Line 41: the headers are copied, the caller's object is not written.
CallerObjectAfter(object, headers) == object

\* Invoke calling the custom function a second time.
InvokeTwice(log, invocation) == Append(Append(log, invocation), invocation)

\* Line 87: the custom function is invoked with customOptions.
Invoke(log, invocation) == Append(log, invocation)

\* Line 87: the custom function's promise is pending, or it threw.
Pending == [kind |-> "pending", response |-> None, error |-> None]
Threw(e) == [kind |-> "threw", response |-> None, error |-> Some(e)]

\* Line 87: an exception or rejection at the await leaves request() as it is.
Rejected(e) == [state |-> "rejected", response |-> None, error |-> Some(e)]

\* Lines 87-125: request() after the custom function resolved.
Continue(customResponse) ==
    LET responseBody == ResponseBody(customResponse.body)
        parsed == ParseJsonBody(customResponse.headers, TextBody(responseBody))
    IN IF parsed.threw
       THEN Rejected("SyntaxError")
       ELSE [state |-> "resolved",
             response |-> Some(NormalizedResponse(customResponse)),
             error |-> None]

\* Lines 40-87: request(options) up to the await.  The custom function is
\* invoked, and returns a promise or throws e.  ua and boundary record what
\* the call read; external records what the custom function did.
RequestOf(options, external, now, rnd) ==
    LET boundary == Boundary(now, rnd)
        callerHeaders == IF options.headers = None THEN None
                         ELSE Some(callerObjects[options.headers[1]])
        customOptions == CustomOptions(options, callerHeaders, userAgent, boundary)
        outcome == IF external.kind = "threw"
                   THEN Rejected(external.error[1])
                   ELSE [state |-> "awaiting", response |-> None, error |-> None]
        call == [options |-> options,
                 ua |-> userAgent,
                 boundary |-> boundary,
                 request |-> customOptions,
                 external |-> external,
                 state |-> outcome.state,
                 response |-> outcome.response,
                 error |-> outcome.error]
    IN /\ calls' = Append(calls, call)
       /\ extLog' = Invoke(extLog, [call |-> Len(calls) + 1, request |-> customOptions])
       /\ callerObjects' =
              IF options.headers = None THEN callerObjects
              ELSE [callerObjects EXCEPT
                       ![options.headers[1]] = CallerObjectAfter(@, customOptions.headers)]
       /\ UNCHANGED userAgent

Request ==
    /\ Len(calls) < MaxCalls
    /\ \E options \in SmallOptions, now \in NowValues, rnd \in {<<53>>},
          external \in {Pending, Threw("ECONNRESET")} :
           RequestOf(options, external, now, rnd)

\* Line 87: the custom function's promise of call i resolves.
ResolveOf(i, customResponse) ==
    LET outcome == Continue(customResponse) IN
    /\ calls[i].state = "awaiting"
    /\ calls' = [calls EXCEPT ![i] =
                    [@ EXCEPT !.external = [kind |-> "resolved",
                                            response |-> Some(customResponse),
                                            error |-> None],
                              !.state = outcome.state,
                              !.response = outcome.response,
                              !.error = outcome.error]]
    /\ UNCHANGED <<userAgent, extLog, callerObjects>>

ExternalResolve ==
    \E i \in DOMAIN calls, customResponse \in SmallResponses :
        ResolveOf(i, customResponse)

\* Line 87: the custom function's promise of call i rejects with e.
RejectOf(i, e) ==
    LET outcome == Rejected(e) IN
    /\ calls[i].state = "awaiting"
    /\ calls' = [calls EXCEPT ![i] =
                    [@ EXCEPT !.external = [kind |-> "rejected",
                                            response |-> None,
                                            error |-> Some(e)],
                              !.state = outcome.state,
                              !.response = outcome.response,
                              !.error = outcome.error]]
    /\ UNCHANGED <<userAgent, extLog, callerObjects>>

ExternalReject ==
    \E i \in DOMAIN calls : RejectOf(i, "ETIMEDOUT")

Next == SetUserAgent \/ Request \/ ExternalResolve \/ ExternalReject

\* Concurrent calls on one adapter.
Spec == Init /\ [][Next]_vars

\* One call, over every option.
RequestWide ==
    /\ calls = <<>>
    /\ \E options \in WideOptions, now \in NowValues, rnd \in RandomDigits :
           RequestOf(options, Pending, now, rnd)

\* The user-agent is configured before the call is made.
Configure ==
    /\ calls = <<>>
    /\ \E value \in UserAgentValues : SetUserAgentTo(value)

NextEncode == Configure \/ RequestWide

SpecEncode == Init /\ [][NextEncode]_vars

\* One call, over every response and failure of the custom function.
RequestOne ==
    /\ calls = <<>>
    /\ \E options \in SmallOptions, now \in NowValues, e \in Errors :
           \E external \in {Pending, Threw(e)} :
               RequestOf(options, external, now, <<53>>)

ExternalResolveWide ==
    \E i \in DOMAIN calls, customResponse \in WideResponses :
        ResolveOf(i, customResponse)

ExternalRejectWide ==
    \E i \in DOMAIN calls, e \in Errors : RejectOf(i, e)

NextDecode == RequestOne \/ ExternalResolveWide \/ ExternalRejectWide

SpecDecode == Init /\ [][NextDecode]_vars

---------------------------------------------------------------------------
(* Properties of the request handed to the custom function.                *)

\* What the caller passed as options.headers to call c (an empty object
\* when it passed none).
CallerHeadersOf(c) ==
    IF c.options.headers = None THEN <<>>
    ELSE InitialCallerObjects[c.options.headers[1]]

\* A user-agent has been configured: the setter was given a non-empty string.
Configured(ua) == ua # None /\ ua[1] # <<>>

\* C1: with a configured user-agent, a request whose headers have no
\* `user-agent` key carries the configured value, and a request whose headers
\* have a `user-agent` key carries the caller's value, not the configured one.
C1_CallerUserAgentWins ==
    \A i \in DOMAIN calls :
        LET c == calls[i]
            caller == CallerHeadersOf(c)
            sent == c.request.headers
        IN Configured(c.ua) =>
               /\ HasKey(sent, S_user_agent)
               /\ ~HasKey(caller, S_user_agent) => Get(sent, S_user_agent) = c.ua[1]
               /\ HasKey(caller, S_user_agent) =>
                      Get(sent, S_user_agent) = Get(caller, S_user_agent)

\* The boundary token named by a content-type value "multipart/form-data;
\* boundary=<token>" (<<>> when the value has another form).
TokenOf(contentType) ==
    IF MatchAt(contentType, 1, S_multipartPrefix)
    THEN SubSeq(contentType, Len(S_multipartPrefix) + 1, Len(contentType))
    ELSE <<>>

C4_InvokedExactlyOnce ==
    /\ Len(extLog) = Len(calls)
    /\ \A i \in DOMAIN calls :
           Cardinality({j \in DOMAIN extLog : extLog[j].call = i}) = 1

\* C4's case: one call rejected by the custom function, another resolved.
C4_Witness ==
    /\ \E i \in DOMAIN calls : calls[i].external.kind = "rejected"
    /\ \E i \in DOMAIN calls : calls[i].external.kind = "resolved"
    /\ Len(extLog) = 2

\* C5: each call's request is the one built from its own options, as the
\* caller passed them, and the user-agent configured when it was made; each
\* resolved call's response is the one decoded from the response to its own
\* request; request() writes no object of a caller.
C5_CallsIndependent ==
    /\ callerObjects = InitialCallerObjects
    /\ \A i \in DOMAIN calls :
           LET c == calls[i] IN
           /\ c.request = CustomOptions(c.options, Some(CallerHeadersOf(c)),
                                        c.ua, c.boundary)
           /\ \E j \in DOMAIN extLog :
                  extLog[j].call = i /\ extLog[j].request = c.request
           /\ c.external.kind = "resolved" =>
                  /\ c.state = "resolved"
                  /\ c.response = Some(NormalizedResponse(c.external.response[1]))

\* C5's case: the second call settled while the first is in flight, the two
\* made from the same header object, the first with a multipart form.
C5_Witness ==
    /\ Len(calls) >= 2
    /\ calls[1].options.headers = calls[2].options.headers
    /\ calls[1].options.headers # None
    /\ calls[1].options.multipartForm # None
    /\ calls[2].options.multipartForm = None
    /\ calls[1].state = "awaiting"
    /\ calls[2].state = "resolved"

\* C10: the headers of a call's request carry the user-agent configured when
\* request() was called; while the call is in flight its request does not
\* change, whatever the setter does; and request() leaves the configured
\* user-agent as it is.
UserAgentAtCallTime ==
    \A i \in DOMAIN calls :
        LET c == calls[i] IN
        /\ Configured(c.ua) =>
               /\ HasKey(c.request.headers, S_user_agent)
               /\ Get(c.request.headers, S_user_agent) = c.ua[1]
        /\ ~Configured(c.ua) =>
               c.request.headers =
                   BuildHeaders(Some(CallerHeadersOf(c)), c.options.multipartForm,
                                None, c.boundary)

RequestsKept ==
    /\ \A i \in DOMAIN calls : calls'[i].request = calls[i].request
    /\ Len(calls') > Len(calls) => userAgent' = userAgent

C10_UserAgentFixedAtCall == [](UserAgentAtCallTime) /\ [][RequestsKept]_vars

\* C10's case: the setter ran while a call made under another user-agent is
\* in flight.
C10_Witness ==
    \E i \in DOMAIN calls :
        /\ calls[i].state = "awaiting"
        /\ calls[i].ua = Some(S_UA1)
        /\ userAgent = Some(S_UA2)
        /\ Get(calls[i].request.headers, S_user_agent) = S_UA1

---------------------------------------------------------------------------
(* Properties of the response returned to the client.                      *)

\* C3: a call is rejected exactly when the custom function threw or rejected,
\* and then with the custom function's own error; a call whose custom
\* function resolved is resolved, whatever the response holds.
C3_FailsOnlyWithExternalError ==
    \A i \in DOMAIN calls :
        LET c == calls[i] IN
        /\ c.state = "rejected" <=> c.external.kind \in {"rejected", "threw"}
        /\ c.state = "rejected" => c.error = c.external.error
        /\ c.external.kind = "resolved" => c.state = "resolved" /\ c.response # None
        /\ c.external.kind = "pending" <=> c.state = "awaiting"

\* C3's case: the custom function resolved with a body that is not JSON under
\* a JSON content type.
C3_Witness ==
    \E i \in DOMAIN calls :
        /\ calls[i].external.kind = "resolved"
        /\ calls[i].external.response[1].body = [k |-> "str", v |-> S_not_json]
        /\ calls[i].external.response[1].headers =
               <<[key |-> S_content_type, value |-> HStr(S_application_json)]>>
        /\ calls[i].state = "resolved"

\* The first header whose name is content-type in any letter case has a value
\* (of an array, a first element) that contains "application/json".
IndicatesJson(headers) ==
    \E i \in DOMAIN headers :
        /\ ToLowerCase(headers[i].key) = S_content_type
        /\ \A j \in 1..(i - 1) : ToLowerCase(headers[j].key) # S_content_type
        /\ headers[i].value.items # <<>>
        /\ Includes(headers[i].value.items[1], S_application_json)

\* C6: the response has a jsonBody exactly when the response's content-type
\* header, found whatever its letter case, contains "application/json" and
\* the text parses as JSON; when the header indicates JSON and the text does
\* not parse, the call still resolves, without a jsonBody, and a text body is
\* returned as it was received.
C6_JsonBodyIffJsonContentTypeAndParses ==
    \A i \in DOMAIN calls :
        LET c == calls[i] IN
        c.external.kind = "resolved" =>
            LET customResponse == c.external.response[1]
                indicated == IndicatesJson(customResponse.headers)
            IN /\ c.state = "resolved"
               /\ c.response[1].jsonBody # None
                      <=> (indicated /\ JSONParse(c.response[1].textBody).ok)
               /\ c.response[1].jsonBody # None =>
                      c.response[1].jsonBody[1] = JSONParse(c.response[1].textBody).val
               /\ customResponse.body.k = "str" =>
                      c.response[1].textBody = customResponse.body.v

\* C6's case: JSON bytes under a header spelled Content-Type whose value is
\* an array.
C6_Witness ==
    \E i \in DOMAIN calls :
        /\ calls[i].external.kind = "resolved"
        /\ calls[i].external.response[1].headers =
               <<[key |-> S_Content_Type,
                  value |-> HArr(<<S_json_charset, S_text_plain>>)]>>
        /\ calls[i].response[1].jsonBody = Some(JArr(<<JNum(1), JNum(2)>>))

\* C8: the headers of the response have lowercased keys only, one entry for
\* each lowercased key of the custom function's headers, and each entry's
\* value is the value of the last header that has that key in any letter
\* case, unchanged.
C8_HeadersLowercasedLastWins ==
    \A i \in DOMAIN calls :
        calls[i].state = "resolved" =>
            LET given == calls[i].external.response[1].headers
                out == calls[i].response[1].headers
            IN /\ \A j \in DOMAIN out : ToLowerCase(out[j].key) = out[j].key
               /\ \A j, k \in DOMAIN out : out[j].key = out[k].key => j = k
               /\ Keys(out) = {ToLowerCase(key) : key \in Keys(given)}
               /\ \A j \in DOMAIN out :
                      \E k \in DOMAIN given :
                          /\ ToLowerCase(given[k].key) = out[j].key
                          /\ \A l \in (k + 1)..Len(given) :
                                 ToLowerCase(given[l].key) # out[j].key
                          /\ out[j].value = given[k].value

\* C8's case: two headers whose names differ only in letter case.
C8_Witness ==
    \E i \in DOMAIN calls :
        /\ calls[i].state = "resolved"
        /\ calls[i].external.response[1].headers =
               <<[key |-> S_Content_Type, value |-> HStr(S_text_plain)],
                 [key |-> S_content_type, value |-> HArr(<<S_json_charset, S_text_plain>>)]>>
        /\ calls[i].response[1].headers =
               <<[key |-> S_content_type, value |-> HArr(<<S_json_charset, S_text_plain>>)]>>

\* C9: whenever the content-type the response exposes (its first element, of
\* an array) contains "application/json" and the text body is JSON, the
\* response has a jsonBody.
C9_JsonDetectionAgreesWithHeaders ==
    \A i \in DOMAIN calls :
        calls[i].state = "resolved" =>
            LET out == calls[i].response[1] IN
            (/\ HasKey(out.headers, S_content_type)
             /\ Get(out.headers, S_content_type).items # <<>>
             /\ Includes(Get(out.headers, S_content_type).items[1], S_application_json)
             /\ JSONParse(out.textBody).ok)
                => out.jsonBody # None

---------------------------------------------------------------------------
(* Reading a multipart/form-data body back, against a boundary token: the  *)
(* wire format of section 6 of the specification.  Each part is a boundary *)
(* line, a Content-Disposition line with a quoted name and an optional     *)
(* quoted filename, an optional Content-Type line, an empty line and the   *)
(* payload up to the next boundary line; the closing line ends the body.   *)

\* The first position from `from` on where sub occurs in s, 0 if nowhere.
IndexOf(s, sub, from) ==
    LET at == {i \in from..(Len(s) - Len(sub) + 1) : MatchAt(s, i, sub)} IN
    IF at = {} THEN 0 ELSE CHOOSE i \in at : \A j \in at : i <= j

\* "Content-Type: "
S_contentTypeLine == SubSeq(S_partContentType, 3, Len(S_partContentType))

NoHeaders == [ok |-> FALSE, name |-> <<>>, filename |-> None, contentType |-> None]

\* The Content-Disposition line: name="<name>", then nothing or
\* ; filename="<filename>".
ReadDisposition(line) ==
    LET q == IndexOf(line, S_quote, Len(S_dispositionHead) + 1)
        after == SubSeq(line, q + 1, Len(line))
        q2 == IndexOf(after, S_quote, Len(S_filenameHead) + 1)
    IN IF ~MatchAt(line, 1, S_dispositionHead) \/ q = 0 THEN NoHeaders
       ELSE IF after = <<>>
            THEN [ok |-> TRUE,
                  name |-> SubSeq(line, Len(S_dispositionHead) + 1, q - 1),
                  filename |-> None, contentType |-> None]
       ELSE IF MatchAt(after, 1, S_filenameHead) /\ q2 # 0 /\ q2 = Len(after)
            THEN [ok |-> TRUE,
                  name |-> SubSeq(line, Len(S_dispositionHead) + 1, q - 1),
                  filename |-> Some(SubSeq(after, Len(S_filenameHead) + 1, q2 - 1)),
                  contentType |-> None]
       ELSE NoHeaders

\* The header lines of a part: the disposition, then at most a Content-Type.
ReadPartHeaders(block) ==
    LET e == IndexOf(block, S_CRLF, 1)
        first == IF e = 0 THEN block ELSE SubSeq(block, 1, e - 1)
        second == IF e = 0 THEN <<>> ELSE SubSeq(block, e + 2, Len(block))
        d == ReadDisposition(first)
    IN IF e = 0 THEN d
       ELSE IF d.ok /\ MatchAt(second, 1, S_contentTypeLine)
               /\ IndexOf(second, S_CRLF, 1) = 0
            THEN [d EXCEPT !.contentType =
                     Some(SubSeq(second, Len(S_contentTypeLine) + 1, Len(second)))]
       ELSE NoHeaders

NoParts == [ok |-> FALSE, fields |-> <<>>]

\* The parts from position pos on, which a boundary line must start.
RECURSIVE ReadParts(_, _, _, _)
ReadParts(body, delimiter, pos, fields) ==
    LET p == pos + Len(delimiter)
        blank == IndexOf(body, S_CRLF \o S_CRLF, p + 2)
        payload == blank + 4
        stop == IndexOf(body, S_CRLF \o delimiter, payload)
        headers == ReadPartHeaders(SubSeq(body, p + 2, blank - 1))
    IN IF ~MatchAt(body, pos, delimiter) THEN NoParts
       ELSE IF MatchAt(body, p, S_dashdash \o S_CRLF) /\ p + 3 = Len(body)
            THEN [ok |-> TRUE, fields |-> fields]
       ELSE IF ~MatchAt(body, p, S_CRLF) \/ blank = 0 \/ stop = 0 \/ ~headers.ok
            THEN NoParts
       ELSE ReadParts(body, delimiter, stop + 2,
                      Append(fields, [name |-> headers.name,
                                      content |-> SubSeq(body, payload, stop - 1),
                                      filename |-> headers.filename,
                                      contentType |-> headers.contentType]))

ParseMultipart(body, boundary) == ReadParts(body, S_dashdash \o boundary, 1, <<>>)

\* An optional string, an empty one counted as absent.
Given(optional) ==
    IF optional # None /\ optional[1] # <<>> THEN optional ELSE None

\* The fields of a payload as a reader is to find them: name, content bytes,
\* filename and content type, in the payload's order.
FieldsOf(form) ==
    [i \in DOMAIN form |-> [name |-> form[i].key,
                            content |-> ContentBytes(form[i].value.content),
                            filename |-> Given(form[i].value.filename),
                            contentType |-> Given(form[i].value.contentType)]]

\* C7: the body of a multipart request, read back against the boundary token
\* of its content-type header, yields the payload's fields - names, contents,
\* filenames and content types, present or absent (an empty one counted as
\* absent) - in the payload's order; an empty payload's body is the closing
\* marker alone.
C7_MultipartRoundTrip ==
    \A i \in DOMAIN calls :
        LET c == calls[i] IN
        c.options.multipartForm # None =>
            LET form == c.options.multipartForm[1]
                token == TokenOf(Get(c.request.headers, S_content_type))
                read == ParseMultipart(c.request.body[1], token)
            IN /\ read.ok
               /\ read.fields = FieldsOf(form)
               /\ form = <<>> =>
                      c.request.body[1] = S_dashdash \o token \o S_dashdash \o S_CRLF

\* A payload whose field names hold no double quote.
PlainForm(form) ==
    \A i \in DOMAIN form : ~Includes(form[i].key, S_quote)

\* The round trip of C7 for the plain payloads only.
RoundTripOfPlainForms ==
    \A i \in DOMAIN calls :
        LET c == calls[i] IN
        (c.options.multipartForm # None /\ PlainForm(c.options.multipartForm[1])) =>
            LET form == c.options.multipartForm[1]
                token == TokenOf(Get(c.request.headers, S_content_type))
                read == ParseMultipart(c.request.body[1], token)
            IN /\ read.ok
               /\ read.fields = FieldsOf(form)
               /\ form = <<>> =>
                      c.request.body[1] = S_dashdash \o token \o S_dashdash \o S_CRLF

=============================================================================
